---- MODULE Spec2Model ----
(***************************************************************************)
(* Penalty kitty ("Strafenkasse"): the ledger store of database.py, the    *)
(* response classifier and the reconciliation run of spond_sync.py and the *)
(* manual handlers of bot.py that write to the ledger.                     *)
(*                                                                         *)
(* Amounts are integer cents.  Text is modelled by TLA+ strings, and the   *)
(* conversions the code applies to it (LOWER, strip, slicing) are computed *)
(* character by character.  datetime('now') is the token Now.  Strings are  *)
(* ASCII: the letter pair O-umlaut / o-umlaut, which is outside ASCII, is   *)
(* written "^" / "~", and a-umlaut is written "ae".                         *)
(***************************************************************************)
EXTENDS Integers, Sequences, FiniteSets, TLC

VARIABLES players, penalties, catalog, run, runs, manuals, arg, ret, bot

vars == <<players, penalties, catalog, run, runs, manuals, arg, ret, bot>>

ledger == <<players, penalties, catalog>>

NULL == "NULL"
Now == "now"

-----------------------------------------------------------------------------
(* Bounds of the model                                                     *)

MaxRuns == 2
MaxManual == 1
MaxEvents == 2
MaxSeqEvents == 1
MaxListLen == 2
MaxCatalogId == 8
MaxDialogs == 2

Procs == {1, 2}
MemberIds == {"s1", "s2"}
EventIds == {"e1", "e2"}

-----------------------------------------------------------------------------
(* Text                                                                    *)

RECURSIVE MapChars(_, _)
MapChars(s, i) ==
    IF i > Len(s) THEN ""
    ELSE LET c == SubSeq(s, i, i)
             l == CASE c = "M" -> "m"
                    [] c = "A" -> "a"
                    [] c = "X" -> "x"
                    [] c = "T" -> "t"
                    [] c = "O" -> "o"
                    [] c = "G" -> "g"
                    [] c = "K" -> "k"
                    [] c = "R" -> "r"
                    [] c = "S" -> "s"
                    [] c = "Z" -> "z"
                    [] c = "B" -> "b"
                    [] OTHER -> c
         IN l \o MapChars(s, i + 1)

\* SQL LOWER(): ASCII letters to lower case, every other character as it is
LOWER(s) == MapChars(s, 1)

RECURSIVE LStrip(_)
LStrip(s) == IF Len(s) > 0 /\ SubSeq(s, 1, 1) = " " THEN LStrip(SubSeq(s, 2, Len(s))) ELSE s

RECURSIVE RStrip(_)
RStrip(s) ==
    IF Len(s) > 0 /\ SubSeq(s, Len(s), Len(s)) = " " THEN RStrip(SubSeq(s, 1, Len(s) - 1)) ELSE s

\* str.strip()
strip(s) == RStrip(LStrip(s))

\* s[:n]
Prefix(s, n) == SubSeq(s, 1, IF Len(s) < n THEN Len(s) ELSE n)

\* LOWER(text) LIKE LOWER('%' || search || '%'), search without wildcards
Like(text, search) ==
    LET t == LOWER(text)
        q == LOWER(search)
    IN \E i \in 1..(Len(t) + 1) :
          /\ i + Len(q) - 1 <= Len(t)
          /\ SubSeq(t, i, i + Len(q) - 1) = q

RECURSIVE SeqSum(_)
SeqSum(s) == IF s = <<>> THEN 0 ELSE Head(s) + SeqSum(Tail(s))

Range(s) == {s[i] : i \in DOMAIN s}

-----------------------------------------------------------------------------
(* Ledger store (database.py)                                              *)

\* Python truthiness of an optional text value
Truthy(x) == x # NULL /\ x # ""

\* fetchone: of the positions selected, the row of least rowid
Least(S) == CHOOSE i \in S : \A j \in S : i <= j

\* the catalog table after init_db: its rows, and the highest id ever given
\* (AUTOINCREMENT gives no id twice)
DefaultCatalog ==
    [rows |-> << [id |-> 1, name |-> "Spond nicht beantwortet", amount |-> 200],
                 [id |-> 2, name |-> "Gelbe Karte", amount |-> 500],
                 [id |-> 3, name |-> "Gelb-Rot", amount |-> 1000],
                 [id |-> 4, name |-> "Rote Karte", amount |-> 1500],
                 [id |-> 5, name |-> "Zu spaet zum Training", amount |-> 300],
                 [id |-> 6, name |-> "Trikot vergessen", amount |-> 500] >>,
     seq |-> 6]

\* INSERT INTO players (name, spond_id): AUTOINCREMENT id, rows are never deleted
InsertPlayer(ps, name, spond_id) ==
    Append(ps, [id |-> Len(ps) + 1, name |-> name, spond_id |-> spond_id])

\* get_or_create_player as it would be without the lookup by name
get_or_create_player_by_id(ps, name, spond_id) ==
    LET bySpond == {i \in DOMAIN ps : ps[i].spond_id = spond_id}
        ps2 == InsertPlayer(ps, name, spond_id)
    IN IF Truthy(spond_id) /\ bySpond # {}
       THEN [players |-> ps, row |-> ps[Least(bySpond)]]
       ELSE [players |-> ps2,
             row |-> ps2[Least({i \in DOMAIN ps2 : LOWER(ps2[i].name) = LOWER(name)})]]

\* get_or_create_player: the table afterwards and the row returned
get_or_create_player(ps, name, spond_id) ==
    LET bySpond == {i \in DOMAIN ps : ps[i].spond_id = spond_id}
        byName == {i \in DOMAIN ps : LOWER(ps[i].name) = LOWER(name)}
    IN IF Truthy(spond_id) /\ bySpond # {}
       THEN [players |-> ps, row |-> ps[Least(bySpond)]]
       ELSE IF byName # {}
       THEN LET i == Least(byName)
            IN [players |-> IF Truthy(spond_id) /\ ~Truthy(ps[i].spond_id)
                            THEN [ps EXCEPT ![i].spond_id = spond_id]
                            ELSE ps,
                row |-> ps[i]]
       ELSE LET ps2 == InsertPlayer(ps, name, spond_id)
            IN [players |-> ps2,
                row |-> ps2[Least({i \in DOMAIN ps2 : LOWER(ps2[i].name) = LOWER(name)})]]

\* find_player: the rows a substring search may return (no ORDER BY)
find_player(ps, search) == {ps[i] : i \in {j \in DOMAIN ps : Like(ps[j].name, search)}}

\* find_catalog_entry: the rows a substring search may return (no ORDER BY)
find_catalog_entry(cat, search) ==
    {cat.rows[i] : i \in {j \in DOMAIN cat.rows : Like(cat.rows[j].name, search)}}

\* add_catalog_entry: INSERT OR REPLACE on the UNIQUE name (compared exactly):
\* a row of that name is deleted, the new row gets the next id
add_catalog_entry(cat, name, amount) ==
    [rows |-> SelectSeq(cat.rows, LAMBDA r : r.name # name)
                \o <<[id |-> cat.seq + 1, name |-> name, amount |-> amount]>>,
     seq |-> cat.seq + 1]

\* remove_catalog_entry: DELETE ... WHERE LOWER(name) = LOWER(?); the table
\* afterwards and whether a row was deleted
remove_catalog_entry(cat, name) ==
    [catalog |-> [cat EXCEPT !.rows = SelectSeq(@, LAMBDA r : LOWER(r.name) # LOWER(name))],
     removed |-> \E i \in DOMAIN cat.rows : LOWER(cat.rows[i].name) = LOWER(name)]

\* add_penalty as it would be under a UNIQUE (player_id, event_id) index with
\* INSERT OR IGNORE
add_penalty_unique(pens, player_id, reason, amount, event_id) ==
    IF \E i \in DOMAIN pens : /\ event_id # NULL
                              /\ pens[i].player_id = player_id
                              /\ pens[i].event_id = event_id
    THEN pens
    ELSE Append(pens, [id |-> Len(pens) + 1, player_id |-> player_id, reason |-> reason,
                       amount |-> amount, paid |-> FALSE, event_id |-> event_id,
                       created_at |-> Now, paid_at |-> NULL])

\* add_penalty: unconditional INSERT, paid defaults to 0, paid_at to NULL
add_penalty(pens, player_id, reason, amount, event_id) ==
    Append(pens, [id |-> Len(pens) + 1, player_id |-> player_id, reason |-> reason,
                  amount |-> amount, paid |-> FALSE, event_id |-> event_id,
                  created_at |-> Now, paid_at |-> NULL])

\* the probe as it would be with "AND paid = 0" in its WHERE clause
penalty_exists_unpaid(pens, player_id, event_id) ==
    Cardinality({i \in DOMAIN pens : /\ pens[i].player_id = player_id
                                      /\ pens[i].event_id # NULL
                                      /\ pens[i].event_id = event_id
                                      /\ pens[i].paid = FALSE}) > 0

\* the probe as it would be without "AND event_id = ?" in its WHERE clause
penalty_exists_any_event(pens, player_id, event_id) ==
    Cardinality({i \in DOMAIN pens : pens[i].player_id = player_id}) > 0

\* penalty_exists: SELECT COUNT(*) ... WHERE player_id = ? AND event_id = ?
penalty_exists(pens, player_id, event_id) ==
    Cardinality({i \in DOMAIN pens : /\ pens[i].player_id = player_id
                                      /\ pens[i].event_id # NULL
                                      /\ pens[i].event_id = event_id}) > 0

\* mark_paid as it would be without "player_id = ?" in its WHERE clause
mark_paid_all(pens, player_id) ==
    [penalties |-> [i \in DOMAIN pens |->
                       IF pens[i].paid = FALSE THEN [pens[i] EXCEPT !.paid = TRUE, !.paid_at = Now]
                       ELSE pens[i]],
     count |-> Cardinality({i \in DOMAIN pens : pens[i].paid = FALSE})]

\* mark_paid as it would be without "paid_at = datetime('now')" in its SET clause
mark_paid_unstamped(pens, player_id) ==
    LET hit == {i \in DOMAIN pens : pens[i].player_id = player_id /\ pens[i].paid = FALSE}
    IN [penalties |-> [i \in DOMAIN pens |->
                          IF i \in hit THEN [pens[i] EXCEPT !.paid = TRUE] ELSE pens[i]],
        count |-> Cardinality(hit)]

\* mark_paid: the table afterwards and cursor.rowcount
mark_paid(pens, player_id) ==
    LET hit == {i \in DOMAIN pens : pens[i].player_id = player_id /\ pens[i].paid = FALSE}
    IN [penalties |-> [i \in DOMAIN pens |->
                          IF i \in hit THEN [pens[i] EXCEPT !.paid = TRUE, !.paid_at = Now]
                          ELSE pens[i]],
        count |-> Cardinality(hit)]

\* get_total_open as it would be without "WHERE paid = 0"
get_total_all(pens) == SeqSum([i \in DOMAIN pens |-> pens[i].amount])

\* get_total_open: COALESCE(SUM(amount), 0) over the unpaid rows
get_total_open(pens) ==
    SeqSum([i \in DOMAIN pens |-> IF pens[i].paid = FALSE THEN pens[i].amount ELSE 0])

-----------------------------------------------------------------------------
(* Response classifier (spond_sync.py)                                     *)

\* the entries a response list may hold: a bare identifier, a dict (a
\* function on its keys), or anything else
Str(m) == [t |-> "str", v |-> m]
Dict(d) == [t |-> "dict", v |-> d]
Other == [t |-> "int", v |-> "7"]

ResponseKeys == {"acceptedIds", "declinedIds", "waitinglistIds", "unconfirmedIds"}

\* _extract_ids as it would be with the isinstance(item, dict) branch missing
_extract_ids_str_only(responses, key) ==
    LET items == IF key \in DOMAIN responses THEN responses[key] ELSE <<>>
    IN {items[i].v : i \in {j \in DOMAIN items : items[j].t = "str"}}

\* _extract_ids as it would be with item.get("id") in place of the "id" in item test
_extract_ids_get(responses, key) ==
    LET items == IF key \in DOMAIN responses THEN responses[key] ELSE <<>>
    IN {items[i].v : i \in {j \in DOMAIN items : items[j].t = "str"}}
       \cup {IF "id" \in DOMAIN items[i].v THEN items[i].v.id ELSE NULL :
               i \in {j \in DOMAIN items : items[j].t = "dict"}}

\* _extract_ids: responses.get(key, []), then one id per str or dict-with-id item
_extract_ids(responses, key) ==
    LET items == IF key \in DOMAIN responses THEN responses[key] ELSE <<>>
    IN {items[i].v : i \in {j \in DOMAIN items : items[j].t = "str"}}
       \cup {items[i].v.id :
               i \in {j \in DOMAIN items : items[j].t = "dict" /\ "id" \in DOMAIN items[j].v}}

\* responded_ids as it would be with the unconfirmed list left out of the union
responded_ids_answered(event) ==
    _extract_ids(event.responses, "acceptedIds")
        \cup _extract_ids(event.responses, "declinedIds")
        \cup _extract_ids(event.responses, "waitinglistIds")

\* responded_ids of one event
responded_ids(event) ==
    _extract_ids(event.responses, "acceptedIds")
        \cup _extract_ids(event.responses, "declinedIds")
        \cup _extract_ids(event.responses, "waitinglistIds")
        \cup _extract_ids(event.responses, "unconfirmedIds")

\* no_reply_ids of one event: every group member counts as invited
no_reply_ids(event, members) == (DOMAIN members) \ responded_ids(event)

\* f"{first_name} {last_name}".strip()
full_name(member) == strip(member.firstName \o " " \o member.lastName)

-----------------------------------------------------------------------------
(* What the scheduling service may return                                  *)

Heading(id) == IF id = "e1" THEN "Training" ELSE "Spiel"

Event(id, cancelled, expired, responses) ==
    [id |-> id, heading |-> Heading(id), startTimestamp |-> "2026-01-05T18:00:00Z",
     cancelled |-> cancelled, expired |-> expired, responses |-> responses]

Entries ==
    {Str(m) : m \in MemberIds} \cup {Dict([id |-> m]) : m \in MemberIds}
        \cup {Dict([name |-> "x"]), Other}

ListsOver(E, n) == UNION {[1..k -> E] : k \in 0..n}

\* a responses dict that holds at most one of the four lists
Payloads(keys, lists) == {<<>>} \cup {k :> l : k \in keys, l \in lists}

\* the event lists get_events may return: at most n events, all distinct
EventLists(events, n) ==
    {es \in ListsOver(events, n) :
        \A i, j \in DOMAIN es : i # j => es[i].id # es[j].id}

MemberNames ==
    { [firstName |-> "Max", lastName |-> ""], [firstName |-> "max", lastName |-> ""],
      [firstName |-> "", lastName |-> "Tom"], [firstName |-> "", lastName |-> ""] }

\* the members dict built from get_group: id -> member
Rosters ==
    UNION {[S -> MemberNames] : S \in SUBSET MemberIds}

-----------------------------------------------------------------------------
(* Reconciliation run (spond_sync.py, sync_spond)                          *)

NewResult == [events_checked |-> 0, new_penalties |-> 0, players_synced |-> 0, details |-> <<>>]

IdleRun ==
    [pc |-> "idle", events |-> <<>>, members |-> <<>>, ev |-> 0, todo |-> {},
     member_id |-> NULL, player_id |-> 0, result |-> NewResult, handled |-> {},
     issued |-> {},
     failed |-> FALSE, replay |-> FALSE]

\* the configured flat amount, in cents
NO_REPLY_PENALTY == 200

\* the first event from index i on that has a member left to handle
RECURSIVE NextPos(_, _, _)
NextPos(events, members, i) ==
    IF i > Len(events) THEN [pc |-> "close", ev |-> i, todo |-> {}]
    ELSE LET nr == no_reply_ids(events[i], members)
         IN IF nr = {} THEN NextPos(events, members, i + 1)
            ELSE [pc |-> "loop", ev |-> i, todo |-> nr]

\* where the two for-loops stand after one member is done
After(r) ==
    LET pos == IF r.todo # {} THEN [pc |-> "loop", ev |-> r.ev, todo |-> r.todo]
               ELSE NextPos(r.events, r.members, r.ev + 1)
    IN [r EXCEPT !.pc = pos.pc, !.ev = pos.ev, !.todo = pos.todo]

InDb(p) == run[p].pc \in {"loop", "probe", "insert"}

\* The store calls of the two loops, each as a step of the machine
\* m = [players, penalties, r]: the ledger tables the run writes and the run's
\* own variables r.

\* the loop body as it would be without the "if not full_name: continue" test
MemberStep_unnamed(m, member_id) ==
    LET r == [m.r EXCEPT !.todo = @ \ {member_id}, !.member_id = member_id,
                         !.handled = @ \cup {<<member_id, m.r.events[m.r.ev].id>>}]
        got == get_or_create_player(m.players, full_name(r.members[member_id]), member_id)
    IN [m EXCEPT !.players = got.players,
                 !.r = [r EXCEPT !.pc = "probe",
                                 !.player_id = got.row.id,
                                 !.result.players_synced = @ + 1]]

\* the next member of no_reply_ids: name, then get_or_create_player
MemberStep(m, member_id) ==
    LET r == [m.r EXCEPT !.todo = @ \ {member_id}, !.member_id = member_id,
                         !.handled = @ \cup {<<member_id, m.r.events[m.r.ev].id>>}]
        name == full_name(r.members[member_id])
        got == get_or_create_player(m.players, name, member_id)
    IN IF name = ""
       THEN [m EXCEPT !.r = After(r)]
       ELSE [m EXCEPT !.players = got.players,
                      !.r = [r EXCEPT !.pc = "probe",
                                      !.player_id = got.row.id,
                                      !.result.players_synced = @ + 1]]

\* the loop body as it would be without the "if not db.penalty_exists" test
ProbeStep_unchecked(m) == [m EXCEPT !.r.pc = "insert"]

\* the loop body as it would be if the probe counted unpaid penalties only
ProbeStep_unpaid(m) ==
    IF penalty_exists_unpaid(m.penalties, m.r.player_id, m.r.events[m.r.ev].id)
    THEN [m EXCEPT !.r = After(m.r)]
    ELSE [m EXCEPT !.r.pc = "insert"]

\* penalty_exists for the player and the event at hand
ProbeStep(m) ==
    IF penalty_exists(m.penalties, m.r.player_id, m.r.events[m.r.ev].id)
    THEN [m EXCEPT !.r = After(m.r)]
    ELSE [m EXCEPT !.r.pc = "insert"]

\* the insert as it would be without the detail line
InsertStep_silent(m) ==
    LET r == m.r
        event == r.events[r.ev]
    IN [m EXCEPT
          !.penalties = add_penalty(m.penalties, r.player_id,
                                    "Spond nicht beantwortet: " \o event.heading,
                                    NO_REPLY_PENALTY, event.id),
          !.r = After([r EXCEPT !.result.new_penalties = @ + 1,
                                !.issued = @ \cup {[member_id |-> r.member_id,
                                                    player_id |-> r.player_id,
                                                    event_id |-> event.id,
                                                    row |-> Len(m.penalties) + 1]}])]

\* add_penalty, new_penalties and the detail line
InsertStep(m) ==
    LET r == m.r
        event == r.events[r.ev]
        name == full_name(r.members[r.member_id])
        line == "  ! " \o name \o " -> " \o event.heading
                  \o " (" \o Prefix(event.startTimestamp, 10) \o ")"
    IN [m EXCEPT
          !.penalties = add_penalty(m.penalties, r.player_id,
                                    "Spond nicht beantwortet: " \o event.heading,
                                    NO_REPLY_PENALTY, event.id),
          !.r = After([r EXCEPT !.result.new_penalties = @ + 1,
                                !.result.details = Append(@, line),
                                !.issued = @ \cup {[member_id |-> r.member_id,
                                                    player_id |-> r.player_id,
                                                    event_id |-> event.id,
                                                    row |-> Len(m.penalties) + 1]}])]

\* the steps open to the machine (a set is iterated in any order)
Steps(m) ==
    CASE m.r.pc = "loop" -> {MemberStep(m, member_id) : member_id \in m.r.todo}
      [] m.r.pc = "probe" -> {ProbeStep(m)}
      [] m.r.pc = "insert" -> {InsertStep(m)}
      [] OTHER -> {}

\* the machine after get_events and get_group have answered
Fetched(r, evs, ms) ==
    After([r EXCEPT !.events = evs, !.members = ms,
                    !.result.events_checked = Len(evs), !.ev = 0, !.todo = {}])

\* the loops run to their end without a break: every state they may end in
RECURSIVE RunLoops(_)
RunLoops(m) == IF Steps(m) = {} THEN {m} ELSE UNION {RunLoops(n) : n \in Steps(m)}

Machine(p) == [players |-> players, penalties |-> penalties, r |-> run[p]]

Become(p, m) ==
    /\ players' = m.players
    /\ penalties' = m.penalties
    /\ run' = [run EXCEPT ![p] = m.r]

(* One call of sync_spond with nothing else in between: the service answers  *)
(* with evs and ms, the loops run, the session is closed, the result is      *)
(* returned.                                                                 *)
sync_spond(p, evs, ms) ==
    /\ run[p].pc = "idle"
    /\ runs < MaxRuns
    /\ runs' = runs + 1
    /\ \E m \in RunLoops([Machine(p) EXCEPT !.r = Fetched(IdleRun, evs, ms)]) :
          Become(p, [m EXCEPT !.r.pc = "done"])
    /\ UNCHANGED <<catalog, manuals, arg, ret, bot>>

\* the same call, the service answering as it did for the call before
sync_spond_again(p) ==
    /\ run[p].pc = "done"
    /\ ~run[p].failed
    /\ runs < MaxRuns
    /\ runs' = runs + 1
    /\ \E m \in RunLoops([Machine(p) EXCEPT
                            !.r = Fetched([IdleRun EXCEPT !.replay = TRUE],
                                          run[p].events, run[p].members)]) :
          Become(p, [m EXCEPT !.r.pc = "done"])
    /\ UNCHANGED <<catalog, manuals, arg, ret, bot>>

\* get_events or get_group raises: finally closes the session, the error propagates
sync_spond_fails(p) ==
    /\ run[p].pc = "idle"
    /\ runs < MaxRuns
    /\ runs' = runs + 1
    /\ run' = [run EXCEPT ![p] = [IdleRun EXCEPT !.pc = "done", !.failed = TRUE]]
    /\ UNCHANGED <<ledger, manuals, arg, ret, bot>>

\* the caller is done with the result
Return(p) ==
    /\ run[p].pc = "done"
    /\ run' = [run EXCEPT ![p] = IdleRun]
    /\ UNCHANGED <<ledger, runs, manuals, arg, ret, bot>>

(* The same call step by step, for runs of two processes on one database    *)

StartSync(p) ==
    /\ run[p].pc = "idle"
    /\ runs < MaxRuns
    /\ runs' = runs + 1
    /\ run' = [run EXCEPT ![p] = [IdleRun EXCEPT !.pc = "get_events"]]
    /\ UNCHANGED <<ledger, manuals, arg, ret, bot>>

GetEvents(p, evs) ==
    /\ run[p].pc = "get_events"
    /\ run' = [run EXCEPT ![p].pc = "get_group", ![p].events = evs]
    /\ UNCHANGED <<ledger, runs, manuals, arg, ret, bot>>

GetGroup(p, ms) ==
    /\ run[p].pc = "get_group"
    /\ run' = [run EXCEPT ![p] = Fetched(run[p], run[p].events, ms)]
    /\ UNCHANGED <<ledger, runs, manuals, arg, ret, bot>>

FetchFails(p) ==
    /\ run[p].pc \in {"get_events", "get_group"}
    /\ run' = [run EXCEPT ![p].pc = "close", ![p].failed = TRUE]
    /\ UNCHANGED <<ledger, runs, manuals, arg, ret, bot>>

Member(p) ==
    /\ run[p].pc = "loop"
    /\ \E m \in Steps(Machine(p)) : Become(p, m)
    /\ UNCHANGED <<catalog, runs, manuals, arg, ret, bot>>

Probe(p) ==
    /\ run[p].pc = "probe"
    /\ \E m \in Steps(Machine(p)) : Become(p, m)
    /\ UNCHANGED <<catalog, runs, manuals, arg, ret, bot>>

Insert(p) ==
    /\ run[p].pc = "insert"
    /\ \E m \in Steps(Machine(p)) : Become(p, m)
    /\ UNCHANGED <<catalog, runs, manuals, arg, ret, bot>>

\* Close as it would be with "return result" inside the finally block
Close_returning(p) ==
    /\ run[p].pc = "close"
    /\ run' = [run EXCEPT ![p].pc = "done", ![p].failed = FALSE]
    /\ UNCHANGED <<ledger, runs, manuals, arg, ret, bot>>

\* finally: the session is closed; a pending exception goes on to the caller
Close(p) ==
    /\ run[p].pc = "close"
    /\ run' = [run EXCEPT ![p].pc = "done"]
    /\ UNCHANGED <<ledger, runs, manuals, arg, ret, bot>>

-----------------------------------------------------------------------------
(* Manual handlers (bot.py)                                                *)

Users == {1, 2}

\* the states of the assignment dialog; END is ConversationHandler.END
END == -1
SELECT_PLAYER == 0
SELECT_REASON == 1
CONFIRM_PENALTY == 2

\* what the process keeps for one user: the state of the user's conversation
\* and user_data["penalty_player_id"]; with them the number of penalties the
\* conversation has inserted since it was entered and the update it handled last
NewConversation == [state |-> END, penalty_player_id |-> 0, inserted |-> 0, last |-> ""]

\* the process after main() has built the application: ADMIN_IDS as read from
\* the environment, no conversation, no keyboard sent yet, no dialog entered
NewBot ==
    [ADMIN_IDS |-> {1}, conv |-> [u \in Users |-> NewConversation], shown |-> {}, dialogs |-> 0]

ADMIN_IDS == bot.ADMIN_IDS

is_admin(user) == ADMIN_IDS = {} \/ user \in ADMIN_IDS

\* no handler runs while a run of the same process is between two awaits
Quiet == \A p \in Procs : ~InDb(p)

\* /strafe_direkt Name | Grund | Betrag, the amount already parsed to cents
cmd_strafe_direkt(user, name_arg, reason_arg, amount_arg) ==
    /\ Quiet
    /\ manuals < MaxManual
    /\ manuals' = manuals + 1
    /\ IF ~is_admin(user)
       THEN UNCHANGED <<players, penalties>>
       ELSE LET name == strip(name_arg)
                typed == strip(reason_arg)
                found == find_catalog_entry(catalog, typed)
            IN \E choice \in (IF found = {} THEN {[name |-> typed, amount |-> amount_arg]}
                              ELSE {[name |-> c.name, amount |-> c.amount] : c \in found}) :
                  LET got == get_or_create_player(players, name, NULL)
                  IN /\ players' = got.players
                     /\ penalties' = add_penalty(penalties, got.row.id, choice.name,
                                                 choice.amount, NULL)
    /\ UNCHANGED <<catalog, run, runs, arg, ret, bot>>

\* /bezahlt Name
cmd_bezahlt(user, name_arg) ==
    /\ Quiet
    /\ IF ~is_admin(user) \/ name_arg = "" \/ find_player(players, name_arg) = {}
       THEN UNCHANGED penalties
       ELSE \E player \in find_player(players, name_arg) :
               penalties' = mark_paid(penalties, player.id).penalties
    /\ UNCHANGED <<players, catalog, run, runs, manuals, arg, ret, bot>>

\* cmd_katalog_add as it would be if penalties referred to the catalog for
\* their amount
cmd_katalog_add_repricing(user, name_arg, amount_arg) ==
    /\ Quiet
    /\ catalog.seq < MaxCatalogId
    /\ catalog' = IF is_admin(user) THEN add_catalog_entry(catalog, strip(name_arg), amount_arg)
                  ELSE catalog
    /\ penalties' = [i \in DOMAIN penalties |->
                        IF is_admin(user) /\ penalties[i].reason = strip(name_arg)
                        THEN [penalties[i] EXCEPT !.amount = amount_arg]
                        ELSE penalties[i]]
    /\ UNCHANGED <<players, run, runs, manuals, arg, ret, bot>>

\* /katalog_add Name | Betrag, the amount already parsed to cents
cmd_katalog_add(user, name_arg, amount_arg) ==
    /\ Quiet
    /\ catalog.seq < MaxCatalogId
    /\ catalog' = IF is_admin(user) THEN add_catalog_entry(catalog, strip(name_arg), amount_arg)
                  ELSE catalog
    /\ UNCHANGED <<players, penalties, run, runs, manuals, arg, ret, bot>>

\* /katalog_del Name
cmd_katalog_del(user, name_arg) ==
    /\ Quiet
    /\ catalog' = IF is_admin(user) /\ name_arg # ""
                  THEN remove_catalog_entry(catalog, name_arg).catalog
                  ELSE catalog
    /\ UNCHANGED <<players, penalties, run, runs, manuals, arg, ret, bot>>

ManualNames == {"max "}
ManualReasons == {"Trikot", "Bier"}
ManualAmounts == {150}
BezahltNames == {"ma", "om", ""}

-----------------------------------------------------------------------------
(* Sequential operation: one run at a time, handlers in between            *)

NoInput == [responses |-> <<>>, key |-> "acceptedIds"]

Init ==
    /\ players = <<>>
    /\ penalties = <<>>
    /\ catalog = DefaultCatalog
    /\ run = [p \in Procs |-> IdleRun]
    /\ runs = 0
    /\ manuals = 0
    /\ arg = NoInput
    /\ ret = <<>>
    /\ bot = NewBot

SeqLists == {<<>>, <<Str("s1")>>, <<Dict([id |-> "s2"])>>, <<Str("s1"), Dict([id |-> "s2"])>>}

SeqEvents ==
    {Event(id, FALSE, TRUE, "acceptedIds" :> l) : id \in EventIds, l \in SeqLists}

SeqRosters == [MemberIds -> MemberNames]

Next ==
    \/ \E evs \in EventLists(SeqEvents, MaxSeqEvents), ms \in SeqRosters : sync_spond(1, evs, ms)
    \/ sync_spond_again(1)
    \/ sync_spond_fails(1)
    \/ Return(1)
    \/ \E u \in Users, n \in ManualNames, r \in ManualReasons, a \in ManualAmounts :
          cmd_strafe_direkt(u, n, r, a)
    \/ \E u \in Users, n \in BezahltNames : cmd_bezahlt(u, n)

Spec == Init /\ [][Next]_vars

-----------------------------------------------------------------------------
(* One run on an empty ledger, over everything the service may return      *)

RunLists ==
    { <<Str("s1")>>, <<Str("s1"), Dict([id |-> "s2"])>>,
      <<Dict([name |-> "x"]), Other, Dict([id |-> "s2"])>> }

RunEvents ==
    {Event(id, c, x, pl) : id \in EventIds, c \in BOOLEAN, x \in BOOLEAN,
                           pl \in Payloads(ResponseKeys, RunLists)}

NextRun ==
    \/ /\ runs = 0
       /\ \E evs \in EventLists(RunEvents, MaxEvents), ms \in Rosters : sync_spond(1, evs, ms)
    \/ runs = 0 /\ sync_spond_fails(1)
    \/ Return(1)

SpecRun == Init /\ [][NextRun]_vars

-----------------------------------------------------------------------------
(* The classifier alone: calls of _extract_ids on a payload whose entries  *)
(* change between the bare and the structured form                         *)

ExtractEntries == Entries \cup {Dict([id |-> "s1", name |-> "x"])}

ExtractArgs ==
    {[responses |-> pl, key |-> k] :
        pl \in Payloads(ResponseKeys, ListsOver(ExtractEntries, MaxListLen)),
        k \in ResponseKeys}

ExtractRoster == [m \in MemberIds |-> [firstName |-> "Max", lastName |-> ""]]

InitExtract ==
    /\ players = <<>>
    /\ penalties = <<>>
    /\ catalog = DefaultCatalog
    /\ run = [p \in Procs |-> IdleRun]
    /\ runs = 0
    /\ manuals = 0
    /\ arg \in ExtractArgs
    /\ ret = <<>>
    /\ bot = NewBot

\* the classifier is called on the payload; the last two calls are kept
Extract ==
    /\ IF ret = <<>> THEN TRUE ELSE ret[1].of # arg
    /\ ret' = <<[of |-> arg,
                 ids |-> _extract_ids(arg.responses, arg.key),
                 no_reply |-> no_reply_ids(Event("e1", FALSE, TRUE, arg.responses),
                                           ExtractRoster)]>>
              \o SubSeq(ret, 1, IF ret = <<>> THEN 0 ELSE 1)
    /\ UNCHANGED <<ledger, run, runs, manuals, arg, bot>>

\* the service sends entry i of list k in the other form: "X" for {id: X}, or back
Reshape(k, i) ==
    /\ k \in DOMAIN arg.responses
    /\ i \in DOMAIN arg.responses[k]
    /\ LET e == arg.responses[k][i]
       IN \/ /\ e.t = "str"
             /\ arg' = [arg EXCEPT !.responses[k][i] = Dict([id |-> e.v])]
          \/ /\ e.t = "dict" /\ "id" \in DOMAIN e.v
             /\ arg' = [arg EXCEPT !.responses[k][i] = Str(e.v.id)]
    /\ UNCHANGED <<ledger, run, runs, manuals, ret, bot>>

NextExtract ==
    \/ Extract
    \/ \E k \in ResponseKeys, i \in 1..MaxListLen : Reshape(k, i)

SpecExtract == InitExtract /\ [][NextExtract]_vars

-----------------------------------------------------------------------------
(* Two processes run sync_spond on one database file: their store calls    *)
(* interleave                                                              *)

ConcEvents == {Event(id, FALSE, TRUE, <<>>) : id \in EventIds}

ConcRosters ==
    [MemberIds -> {[firstName |-> "Max", lastName |-> ""], [firstName |-> "", lastName |-> "Tom"]}]

NextConc ==
    \E p \in Procs :
        \/ StartSync(p)
        \/ \E evs \in EventLists(ConcEvents, MaxSeqEvents) : GetEvents(p, evs)
        \/ \E ms \in ConcRosters : GetGroup(p, ms)
        \/ FetchFails(p)
        \/ Member(p)
        \/ Probe(p)
        \/ Insert(p)
        \/ Close(p)
        \/ Return(p)

SpecConc == Init /\ [][NextConc]_vars

-----------------------------------------------------------------------------
(* Claims on sequential operation                                          *)

SamePair(a, b) == a.event_id # NULL /\ a.player_id = b.player_id /\ a.event_id = b.event_id

\* C1: in every state reached by runs made one after another, manual
\* assignments and payments, no two penalty rows have the same player id and
\* the same non-null event id.
C1_AtMostOnePenaltyPerPair ==
    \A i, j \in DOMAIN penalties : SamePair(penalties[i], penalties[j]) => i = j

\* a second run met a member it had to probe and not fine, next to a paid
\* sync-issued penalty and a manual one
C1_Witness ==
    /\ runs = 2
    /\ run[1].pc = "done"
    /\ run[1].result.players_synced > run[1].result.new_penalties
    /\ \E i, j \in DOMAIN penalties :
          /\ penalties[i].event_id # NULL /\ penalties[i].paid
          /\ penalties[j].event_id = NULL

\* C2: a run inserts no penalty for a (player, event) pair that an earlier
\* run penalized, whatever roster and events it is given, and a run over the
\* data of the run before it reports new_penalties = 0.
C2_SecondRunAddsNothing ==
    /\ [][\A i \in (DOMAIN penalties') \ (DOMAIN penalties) :
             \A j \in DOMAIN penalties : ~SamePair(penalties[j], penalties'[i])]_vars
    /\ [](\A p \in Procs :
             run[p].pc = "done" /\ run[p].replay => run[p].result.new_penalties = 0)

\* a run over identical data has met no-reply members and fined none of them
C2_Witness ==
    /\ run[1].pc = "done"
    /\ run[1].replay
    /\ run[1].result.players_synced > 0
    /\ run[1].result.new_penalties = 0
    /\ \E i \in DOMAIN penalties : penalties[i].event_id = run[1].events[1].id

-----------------------------------------------------------------------------
(* Claims on one run                                                       *)

Finished(p) == run[p].pc = "done" /\ ~run[p].failed

EventById(p, id) == CHOOSE e \in Range(run[p].events) : e.id = id

\* entry names the identifier X, as a bare identifier or as a record with id X
Carries(entry, X) ==
    \/ entry.t = "str" /\ entry.v = X
    \/ entry.t = "dict" /\ "id" \in DOMAIN entry.v /\ entry.v.id = X

\* X appears in one of the event's four response lists
Listed(event, X) ==
    \E k \in ResponseKeys \cap DOMAIN event.responses :
        \E i \in DOMAIN event.responses[k] : Carries(event.responses[k][i], X)

\* the penalty rows tagged with an event
Tagged(id) == {i \in DOMAIN penalties : penalties[i].event_id = id}

\* C3: a run issues no penalty tagged with an event that is marked cancelled.
C3_NoPenaltyForCancelled ==
    \A p \in Procs :
        Finished(p) => \A x \in run[p].issued : ~EventById(p, x.event_id).cancelled

\* C4: for every event whose deadline has not elapsed the run counts one
\* more in skipped_expired and issues no penalty tagged with the event.
C4_OpenDeadlineSkipped ==
    \A p \in Procs :
        Finished(p) =>
            LET open == {i \in DOMAIN run[p].events :
                            ~run[p].events[i].cancelled /\ ~run[p].events[i].expired}
            IN \A i \in open :
                  /\ \A x \in run[p].issued : x.event_id # run[p].events[i].id
                  /\ "skipped_expired" \in DOMAIN run[p].result
                  /\ run[p].result.skipped_expired = Cardinality(open)

\* C6: after a run on an empty ledger every eligible event has as many
\* penalties as there are named roster members in none of its lists, one for
\* each of them.
C6_OncePerEventPerMember ==
    \A p \in Procs :
        Finished(p) =>
            \A i \in DOMAIN run[p].events :
                LET e == run[p].events[i]
                    silent == {m \in DOMAIN run[p].members :
                                  full_name(run[p].members[m]) # "" /\ ~Listed(e, m)}
                IN ~e.cancelled /\ e.expired =>
                      /\ Cardinality(Tagged(e.id)) = Cardinality(silent)
                      /\ \A m \in silent :
                            Cardinality({j \in Tagged(e.id) :
                                \E k \in DOMAIN players :
                                    /\ players[k].spond_id = m
                                    /\ players[k].id = penalties[j].player_id}) = 1

\* C7: the members a run handles for an event are the roster ids that are in
\* none of the event's four lists, and it issues penalties for such members only.
C7_NoReplyIsRosterMinusListed ==
    \A p \in Procs :
        Finished(p) =>
            /\ \A i \in DOMAIN run[p].events :
                  {m \in MemberIds : <<m, run[p].events[i].id>> \in run[p].handled}
                     = {m \in DOMAIN run[p].members : ~Listed(run[p].events[i], m)}
            /\ \A x \in run[p].issued :
                  /\ x.member_id \in DOMAIN run[p].members
                  /\ ~Listed(EventById(p, x.event_id), x.member_id)

\* s1 was fined for an event whose unanswered list holds s2 as a record, and
\* for another event the roster has no s2 although a list names it
C7_Witness ==
    /\ Finished(1)
    /\ \E x \in run[1].issued :
          LET e == EventById(1, x.event_id)
          IN /\ x.member_id = "s1"
             /\ "s2" \in DOMAIN run[1].members
             /\ "unconfirmedIds" \in DOMAIN e.responses
             /\ \E i \in DOMAIN e.responses["unconfirmedIds"] :
                   e.responses["unconfirmedIds"][i] = Dict([id |-> "s2"])
             /\ \A y \in run[1].issued : y.event_id = e.id => y.member_id = "s1"

\* C10: after a successful run every roster member (here: every one with a
\* display name, whom a player row can be made for) has a player row that
\* carries the member's id, also when the member replied to every event.
C10_EveryRosterMemberIsPlayer ==
    \A p \in Procs :
        Finished(p) =>
            \A m \in DOMAIN run[p].members :
                full_name(run[p].members[m]) # "" =>
                    \E k \in DOMAIN players : players[k].spond_id = m

-----------------------------------------------------------------------------
(* Claims on the classifier                                                *)

\* both entries are the same, or both name the same identifier
SameEntry(a, b) == a = b \/ \E X \in MemberIds : Carries(a, X) /\ Carries(b, X)

\* two payloads that differ only in the form of entries
SameUpToForm(a, b) ==
    /\ a.key = b.key
    /\ DOMAIN a.responses = DOMAIN b.responses
    /\ \A k \in DOMAIN a.responses :
          /\ Len(a.responses[k]) = Len(b.responses[k])
          /\ \A i \in DOMAIN a.responses[k] : SameEntry(a.responses[k][i], b.responses[k][i])

\* C8: writing a bare identifier X as {id: X}, or the reverse, in a response
\* list changes neither the extracted id set nor the event's no-reply set.
C8_FormOfAnEntryIsIrrelevant ==
    Len(ret) = 2 /\ SameUpToForm(ret[1].of, ret[2].of) =>
        /\ ret[1].ids = ret[2].ids
        /\ ret[1].no_reply = ret[2].no_reply

\* two calls on payloads that differ in the form of an entry, with an id found
C8_Witness ==
    /\ Len(ret) = 2
    /\ ret[1].of # ret[2].of
    /\ SameUpToForm(ret[1].of, ret[2].of)
    /\ ret[1].ids # {}
    /\ ret[1].no_reply # MemberIds

\* the list a call has read
ListRead(c) == IF c.of.key \in DOMAIN c.of.responses THEN c.of.responses[c.of.key] ELSE <<>>

\* C9: the classifier returns the ids of the well-formed entries of the list
\* and nothing for the others (a record without id, a value of another type).
C9_MalformedEntriesAreDropped ==
    \A n \in DOMAIN ret :
        ret[n].ids = {X \in MemberIds : \E i \in DOMAIN ListRead(ret[n]) :
                                           Carries(ListRead(ret[n])[i], X)}

\* a call on a list that holds a malformed entry next to a well-formed one
C9_Witness ==
    \E n \in DOMAIN ret :
        /\ \E i \in DOMAIN ListRead(ret[n]) :
              ListRead(ret[n])[i] \in {Dict([name |-> "x"]), Other}
        /\ ret[n].ids # {}

-----------------------------------------------------------------------------
(* Claims on concurrent runs                                               *)

\* C5: between the probe and the insert of one run another run may probe the
\* same (player, event); the insert that follows a probe adds its row whatever
\* the table holds by then, so the pair can end up with two rows.
C5_InsertAfterProbeIsUnconditional ==
    [][\A p \in Procs :
          run[p].pc = "insert" /\ run'[p].pc # "insert" =>
              /\ Len(penalties') = Len(penalties) + 1
              /\ penalties'[Len(penalties')].player_id = run[p].player_id
              /\ penalties'[Len(penalties')].event_id = run[p].events[run[p].ev].id]_vars

\* two rows for one (player, event), one inserted by each run
C5_Witness ==
    \E x \in run[1].issued, y \in run[2].issued :
        /\ x.player_id = y.player_id
        /\ x.event_id = y.event_id
        /\ x.row # y.row
        /\ SamePair(penalties[x.row], penalties[y.row])

-----------------------------------------------------------------------------
(* The players table: calls of get_or_create_player, manual assignments    *)
(* and runs                                                                *)

UpsertNames == {"max", "^z", "~z"}
UpsertIds == {NULL, "s1"}

\* one call of get_or_create_player; the call is kept with the table it left,
\* and the call before it too when that one left the table this one found
UpsertPlayer(name, spond_id) ==
    /\ Quiet
    /\ LET got == get_or_create_player(players, name, spond_id)
       IN /\ players' = got.players
          /\ ret' = <<[name |-> name, spond_id |-> spond_id, id |-> got.row.id,
                       after |-> got.players]>>
                    \o (IF ret = <<>> THEN <<>>
                        ELSE IF ret[1].after = players THEN <<ret[1]>> ELSE <<>>)
    /\ UNCHANGED <<penalties, catalog, run, runs, manuals, arg, bot>>

PlayerEvents == {Event("e1", FALSE, TRUE, <<>>)}

PlayerRosters ==
    [{"s2"} -> {[firstName |-> "Max", lastName |-> ""], [firstName |-> "~z", lastName |-> ""]}]

PlayerManualNames == {"MAX "}

NextPlayers ==
    \/ \E name \in UpsertNames, spond_id \in UpsertIds : UpsertPlayer(name, spond_id)
    \/ /\ runs = 0
       /\ \E e \in PlayerEvents, ms \in PlayerRosters : sync_spond(1, <<e>>, ms)
    \/ Return(1)
    \/ \E u \in Users, n \in PlayerManualNames, a \in ManualAmounts :
          cmd_strafe_direkt(u, n, "Bier", a)

SpecPlayers == Init /\ [][NextPlayers]_vars

-----------------------------------------------------------------------------
(* Claims on the players table                                             *)

\* C11: two calls of get_or_create_player in a row with the same name and
\* external id return the same player id, and the second adds no row; no
\* state holds two rows for one external id.
C11_UpsertIsIdempotent ==
    /\ Len(ret) = 2 /\ ret[1].name = ret[2].name /\ ret[1].spond_id = ret[2].spond_id
       => /\ ret[1].id = ret[2].id
          /\ Len(ret[1].after) = Len(ret[2].after)
    /\ \A i, j \in DOMAIN players :
          players[i].spond_id # NULL /\ players[i].spond_id = players[j].spond_id => i = j

\* the first of two equal calls in a row inserted a row with an external id,
\* after a run had stored another one
C11_Witness ==
    /\ Len(ret) = 2
    /\ ret[1].name = ret[2].name /\ ret[1].spond_id = ret[2].spond_id
    /\ ret[1].spond_id # NULL
    /\ ret[1].id = Len(players)
    /\ runs > 0
    /\ Len(players) > 1

\* a name with every letter in lower case, the letters outside ASCII too
RECURSIVE FoldChars(_, _)
FoldChars(s, i) ==
    IF i > Len(s) THEN ""
    ELSE (IF SubSeq(s, i, i) = "^" THEN "~" ELSE LOWER(SubSeq(s, i, i))) \o FoldChars(s, i + 1)

\* C12: no two player rows have the same non-null external id, and no two
\* have names that are equal up to letter case.
C12_PlayersAreUnique ==
    \A i, j \in DOMAIN players :
        i # j =>
            /\ players[i].spond_id = NULL \/ players[i].spond_id # players[j].spond_id
            /\ FoldChars(players[i].name, 1) # FoldChars(players[j].name, 1)

-----------------------------------------------------------------------------
(* Claims on a run whose fetch fails                                       *)

\* C13: when get_events or get_group fails, the run goes to the closing of
\* the session and ends with the failure (no result is returned, nothing is
\* fetched again), the failing step leaves the ledger as it is, and the run
\* has handled no member, created no player and issued no penalty.
C13_FetchFailureAborts ==
    /\ [](\A p \in Procs :
             run[p].failed =>
                 /\ run[p].pc \in {"close", "done"}
                 /\ run[p].result = NewResult
                 /\ run[p].handled = {} /\ run[p].issued = {})
    /\ [][\A p \in Procs :
             /\ run[p].failed =>
                   \/ run'[p].failed /\ run'[p].pc \in {"close", "done"}
                   \/ run'[p] = IdleRun
             /\ ~run[p].failed /\ run'[p].failed => UNCHANGED ledger]_vars

\* the roster fetch of a run failed after its events had arrived, and the run
\* has ended, while the other run has issued a penalty
C13_Witness ==
    /\ run[1].failed
    /\ run[1].pc = "done"
    /\ run[1].events # <<>>
    /\ run[2].issued # {}

-----------------------------------------------------------------------------
(* The sync command (bot.py, cmd_spond_sync) and the window of a run       *)

\* the parameters of sync_spond, and the keywords cmd_spond_sync calls it with
SyncSpondParams == {"email", "password", "group_id", "penalty_amount"}
SyncSpondCall == {"email", "password", "group_id", "penalty_amount", "from_date"}

\* the keys of the result that the report reads
ReportKeys == {"events_checked", "skipped_expired", "new_penalties", "details"}

\* Dates are days of January 2026; now is the 30th.
Today == 30
WindowDays == 14

Digits == "0123456789"

IsNumber(s) == \A i \in 1..Len(s) : \E n \in 1..10 : SubSeq(s, i, i) = SubSeq(Digits, n, n)

RECURSIVE Number(_)
Number(s) ==
    IF s = "" THEN 0
    ELSE 10 * Number(SubSeq(s, 1, Len(s) - 1))
           + (CHOOSE n \in 0..9 : SubSeq(s, Len(s), Len(s)) = SubSeq(Digits, n + 1, n + 1))

\* the day a date of January 2026 names, if year, month and day are numbers
\* that make such a date
DayOf(y, m, d) ==
    IF IsNumber(y) /\ IsNumber(m) /\ IsNumber(d)
    THEN IF Number(y) = 2026 /\ Number(m) = 1 /\ Number(d) \in 1..31 THEN {Number(d)} ELSE {}
    ELSE {}

\* datetime.strptime with "%d.%m.%Y", "%Y-%m-%d", "%d/%m/%Y" in turn, fields
\* written with all their digits: the day parsed, or nothing (ValueError)
strptime(s) ==
    IF Len(s) # 10 THEN {}
    ELSE IF SubSeq(s, 3, 3) = "." /\ SubSeq(s, 6, 6) = "."
    THEN DayOf(SubSeq(s, 7, 10), SubSeq(s, 4, 5), SubSeq(s, 1, 2))
    ELSE IF SubSeq(s, 5, 5) = "-" /\ SubSeq(s, 8, 8) = "-"
    THEN DayOf(SubSeq(s, 1, 4), SubSeq(s, 6, 7), SubSeq(s, 9, 10))
    ELSE IF SubSeq(s, 3, 3) = "/" /\ SubSeq(s, 6, 6) = "/"
    THEN DayOf(SubSeq(s, 7, 10), SubSeq(s, 4, 5), SubSeq(s, 1, 2))
    ELSE {}

\* the day an event starts
StartDay(event) == Number(SubSeq(event.startTimestamp, 9, 10))

\* get_events(min_start, max_end) on the service's calendar
get_events(calendar, min_start, max_end) ==
    SelectSeq(calendar, LAMBDA e : min_start <= StartDay(e) /\ StartDay(e) <= max_end)

\* /spond_sync [date] in a process whose SPOND_GROUP_ID is group_id, the
\* service being up or not and holding calendar and the roster ms.  The reply
\* shown last is kept, with the window and the result of the run if one was made.
cmd_spond_sync(user, group_id, date_arg, up, calendar, ms) ==
    /\ Quiet
    /\ run[1].pc = "idle"
    /\ LET from_date == IF date_arg = "" THEN {Today - WindowDays} ELSE strptime(date_arg)
           min_date == Today - WindowDays
           Reply(kind, window, report) ==
               <<[user |-> user, group_id |-> group_id, date_arg |-> date_arg, up |-> up,
                  reply |-> kind, window |-> window, report |-> report]>>
       IN IF ~is_admin(user)
          THEN ret' = Reply("admins only", {}, {}) /\ UNCHANGED <<players, penalties>>
          ELSE IF group_id = ""
          THEN ret' = Reply("no group", {}, {}) /\ UNCHANGED <<players, penalties>>
          ELSE IF from_date = {}
          THEN ret' = Reply("date format", {}, {}) /\ UNCHANGED <<players, penalties>>
          ELSE IF ~(SyncSpondCall \subseteq SyncSpondParams)
          THEN ret' = Reply("failure", {}, {}) /\ UNCHANGED <<players, penalties>>
          ELSE IF ~up
          THEN ret' = Reply("failure", {[from |-> min_date, to |-> Today]}, {})
                  /\ UNCHANGED <<players, penalties>>
          ELSE \E m \in RunLoops([Machine(1) EXCEPT
                                    !.r = Fetched(IdleRun,
                                                  get_events(calendar, min_date, Today), ms)]) :
                  /\ players' = m.players
                  /\ penalties' = m.penalties
                  /\ ret' = IF ReportKeys \subseteq DOMAIN m.r.result
                            THEN Reply("success", {[from |-> min_date, to |-> Today]},
                                       {m.r.result})
                            ELSE Reply("failure", {[from |-> min_date, to |-> Today]}, {})
    /\ UNCHANGED <<catalog, run, runs, manuals, arg, bot>>

GroupIds == {"", "g1"}
DateArgs == {"", "05.01.2026", "2026-01-20", "gestern"}

\* the service's calendar: e2 started on the 10th, e1 on the 27th; nobody replied
Calendars ==
    { <<>>,
      <<[Event("e2", FALSE, TRUE, <<>>) EXCEPT !.startTimestamp = "2026-01-10T18:00:00Z"]>>,
      <<[Event("e2", FALSE, TRUE, <<>>) EXCEPT !.startTimestamp = "2026-01-10T18:00:00Z"],
        [Event("e1", FALSE, TRUE, <<>>) EXCEPT !.startTimestamp = "2026-01-27T18:00:00Z"]>> }

CmdRosters == [{"s1"} -> {[firstName |-> "Max", lastName |-> ""]}]

NextCmd ==
    \/ \E u \in Users, g \in GroupIds, d \in DateArgs, up \in BOOLEAN,
          cal \in Calendars, ms \in CmdRosters : cmd_spond_sync(u, g, d, up, cal, ms)
    \/ \E cal \in Calendars, ms \in CmdRosters :
          sync_spond(1, get_events(cal, Today - WindowDays, Today), ms)
    \/ sync_spond_fails(1)
    \/ Return(1)
    \/ \E u \in Users, n \in ManualNames, r \in ManualReasons, a \in ManualAmounts :
          cmd_strafe_direkt(u, n, r, a)
    \/ \E u \in Users, n \in BezahltNames : cmd_bezahlt(u, n)

SpecCmd == Init /\ [][NextCmd]_vars

-----------------------------------------------------------------------------
(* Claims on the sync command                                              *)

\* an admin has sent the command in a process with a group id, with no date
\* or one that parses
Accepted(c) ==
    /\ is_admin(c.user)
    /\ c.group_id # ""
    /\ c.date_arg = "" \/ strptime(c.date_arg) # {}

\* C14: an accepted sync command ends with the success report, built from
\* events_checked, skipped_expired, new_penalties and details of the run's
\* result, when the service answered, and with the failure message only
\* when the service failed.
C14_SuccessReportUnlessServiceFails ==
    \A n \in DOMAIN ret :
        Accepted(ret[n]) =>
            /\ ret[n].reply \in {"success", "failure"}
            /\ ret[n].reply = "failure" => ~ret[n].up
            /\ ret[n].reply = "success" =>
                  \E result \in ret[n].report : ReportKeys \subseteq DOMAIN result

\* C15: an accepted sync command makes a run that fetches the events of the
\* window from the date given in the command, or from 14 days before now when
\* none is given, up to now.
C15_WindowStartsAtGivenDate ==
    \A n \in DOMAIN ret :
        Accepted(ret[n]) =>
            LET from == IF ret[n].date_arg = "" THEN Today - WindowDays
                        ELSE CHOOSE d \in strptime(ret[n].date_arg) : TRUE
            IN ret[n].window = {[from |-> from, to |-> Today]}

-----------------------------------------------------------------------------
(* The penalties table: manual assignments, a run, payments and changes of *)
(* the catalog                                                             *)

\* one call of mark_paid; the call is kept with what it returned, the number
\* of penalty rows it found, and the players that mark_paid has been called
\* for since the last penalty was added
MarkPaid(player_id) ==
    /\ Quiet
    /\ LET paid == mark_paid(penalties, player_id)
           since == IF ret = <<>> THEN {}
                    ELSE IF ret[1].rows = Len(penalties) THEN ret[1].settled ELSE {}
       IN /\ penalties' = paid.penalties
          /\ ret' = <<[player_id |-> player_id, count |-> paid.count, rows |-> Len(penalties),
                       settled |-> since \cup {player_id}]>>
    /\ UNCHANGED <<players, catalog, run, runs, manuals, arg, bot>>

PlayerIds == 1..3

LedgerEvents == {Event("e1", FALSE, TRUE, <<>>)}

LedgerRosters ==
    { [m \in {"s1"} |-> [firstName |-> "Max", lastName |-> ""]],
      [m \in MemberIds |-> IF m = "s1" THEN [firstName |-> "Max", lastName |-> ""]
                           ELSE [firstName |-> "", lastName |-> "Tom"]] }

LedgerReasons == {"gelbe", "Bier"}
CatalogNames == {"Gelbe Karte "}
CatalogAmounts == {700}
CatalogDelNames == {"gelbe karte", ""}

NextLedger ==
    \/ \E u \in Users, n \in ManualNames, r \in LedgerReasons, a \in ManualAmounts :
          cmd_strafe_direkt(u, n, r, a)
    \/ /\ runs = 0
       /\ \E e \in LedgerEvents, ms \in LedgerRosters : sync_spond(1, <<e>>, ms)
    \/ Return(1)
    \/ \E u \in Users, n \in BezahltNames : cmd_bezahlt(u, n)
    \/ \E p \in PlayerIds : MarkPaid(p)
    \/ \E u \in Users, n \in CatalogNames, a \in CatalogAmounts : cmd_katalog_add(u, n, a)
    \/ \E u \in Users, n \in CatalogDelNames : cmd_katalog_del(u, n)

SpecLedger == Init /\ [][NextLedger]_vars

-----------------------------------------------------------------------------
(* Claims on the penalties table                                           *)

\* the unpaid penalties of a player
OpenOf(player_id) ==
    {i \in DOMAIN penalties : penalties[i].player_id = player_id /\ ~penalties[i].paid}

\* C16: a call of mark_paid for player p returns the number of p's unpaid
\* penalties, sets exactly those to paid with a paid timestamp, and changes
\* nothing else; when p has no unpaid penalty it returns 0 and the ledger is
\* as it was.
C16_MarkPaidTouchesOnlyOpenOfPlayer ==
    [][ret' # ret =>
          LET call == ret'[1]
              mine == OpenOf(call.player_id)
          IN /\ call.count = Cardinality(mine)
             /\ DOMAIN penalties' = DOMAIN penalties
             /\ \A i \in DOMAIN penalties :
                   penalties'[i] = IF i \in mine
                                   THEN [penalties[i] EXCEPT !.paid = TRUE, !.paid_at = Now]
                                   ELSE penalties[i]
             /\ \A i \in mine : penalties'[i].paid_at # NULL
             /\ UNCHANGED <<players, catalog>>
             /\ mine = {} => call.count = 0 /\ UNCHANGED ledger]_vars

\* a call paid one penalty of a player who had an earlier paid one, while
\* another player has an unpaid penalty
C16_Witness ==
    /\ ret # <<>>
    /\ ret[1].count = 1
    /\ ret[1].rows = Len(penalties)
    /\ \E i, j, k \in DOMAIN penalties :
          /\ penalties[i].player_id = ret[1].player_id /\ penalties[i].paid
          /\ penalties[j].player_id = ret[1].player_id /\ penalties[j].paid /\ i # j
          /\ penalties[k].player_id # ret[1].player_id /\ ~penalties[k].paid

RECURSIVE SumOver(_)
SumOver(S) ==
    IF S = {} THEN 0
    ELSE LET i == CHOOSE i \in S : TRUE IN penalties[i].amount + SumOver(S \ {i})

\* mark_paid has been called for every player since the last penalty was added
AllSettled ==
    /\ ret # <<>>
    /\ ret[1].rows = Len(penalties)
    /\ \A k \in DOMAIN players : players[k].id \in ret[1].settled

\* C17: get_total_open is the sum of the amounts of the unpaid penalties, 0
\* when there are none, and it is 0 once mark_paid has been called for every
\* player with no penalty added in between.
C17_TotalOpenIsSumOfUnpaid ==
    /\ get_total_open(penalties) = SumOver({i \in DOMAIN penalties : ~penalties[i].paid})
    /\ AllSettled => get_total_open(penalties) = 0

\* every player has been paid for, two of them had penalties
C17_Witness ==
    /\ AllSettled
    /\ Len(penalties) = 3
    /\ \E i, j \in DOMAIN penalties : penalties[i].player_id # penalties[j].player_id
    /\ get_total_open(penalties) = 0

\* C18: a manual assignment whose reason matches a catalog entry stores the
\* name and the amount that entry has at that moment, and a change of the
\* catalog changes no penalty.
C18_AmountIsCopiedAtIssuance ==
    [][/\ manuals' # manuals /\ Len(penalties') > Len(penalties) =>
             LET new == penalties'[Len(penalties')]
             IN \/ \E i \in DOMAIN catalog.rows :
                      /\ catalog.rows[i].name = new.reason
                      /\ catalog.rows[i].amount = new.amount
                \/ \A i \in DOMAIN catalog.rows : ~Like(catalog.rows[i].name, new.reason)
       /\ catalog' # catalog => penalties' = penalties]_vars

\* a penalty issued from a re-priced catalog entry keeps the amount after the
\* entry has been removed
C18_Witness ==
    /\ \E i \in DOMAIN penalties :
          penalties[i].reason = "Gelbe Karte" /\ penalties[i].amount = 700
    /\ \A i \in DOMAIN catalog.rows : catalog.rows[i].name # "Gelbe Karte"

\* C19: a penalty row is never deleted and keeps its player id, reason,
\* amount and event id; paid goes from false to true only, and only by
\* mark_paid; paid_at is set exactly when paid is true.
C19_PenaltyLifecycle ==
    /\ [](\A i \in DOMAIN penalties : penalties[i].paid <=> penalties[i].paid_at # NULL)
    /\ [][/\ Len(penalties') >= Len(penalties)
          /\ \A i \in DOMAIN penalties :
                /\ penalties'[i].id = penalties[i].id
                /\ penalties'[i].player_id = penalties[i].player_id
                /\ penalties'[i].reason = penalties[i].reason
                /\ penalties'[i].amount = penalties[i].amount
                /\ penalties'[i].event_id = penalties[i].event_id
                /\ penalties[i].paid => penalties'[i].paid
          /\ (\E i \in DOMAIN penalties : penalties'[i].paid # penalties[i].paid) =>
                \E k \in DOMAIN players :
                    penalties' = mark_paid(penalties, players[k].id).penalties]_vars

\* a player has a paid penalty and a later unpaid one, one of them issued by
\* a run, and the catalog has changed
C19_Witness ==
    /\ \E i, j \in DOMAIN penalties :
          /\ i < j
          /\ penalties[i].player_id = penalties[j].player_id
          /\ penalties[i].paid /\ ~penalties[j].paid
          /\ penalties[i].event_id # NULL \/ penalties[j].event_id # NULL
    /\ catalog # DefaultCatalog

-----------------------------------------------------------------------------
(* Claims on members without a name                                        *)

\* the roster members of a run whose display name is empty
Unnamed(p) == {m \in DOMAIN run[p].members : full_name(run[p].members[m]) = ""}

\* C20: a run on an empty ledger ends without failure; for a member whose
\* first and last name make an empty display name it has created no player
\* and issued no penalty; and it has gone on to every other no-reply member
\* of every event: each one with a name was looked up as a player.
C20_UnnamedMembersAreSkipped ==
    \A p \in Procs :
        run[p].pc = "done" /\ run[p].events # <<>> =>
            /\ ~run[p].failed
            /\ \A m \in Unnamed(p) :
                  /\ \A x \in run[p].issued : x.member_id # m
                  /\ \A k \in DOMAIN players : players[k].spond_id # m
            /\ \A k \in DOMAIN players : players[k].name # ""
            /\ \A i \in DOMAIN run[p].events, m \in DOMAIN run[p].members :
                  ~Listed(run[p].events[i], m) => <<m, run[p].events[i].id>> \in run[p].handled
            /\ run[p].result.players_synced
                  = Cardinality({h \in run[p].handled : h[1] \notin Unnamed(p)})

\* two events that neither s1, who has no name, nor s2 answered: s2 was
\* fined for both
C20_Witness ==
    /\ Finished(1)
    /\ Unnamed(1) = {"s1"}
    /\ Len(run[1].events) = 2
    /\ \A i \in DOMAIN run[1].events :
          /\ <<"s1", run[1].events[i].id>> \in run[1].handled
          /\ \E x \in run[1].issued : x.member_id = "s2" /\ x.event_id = run[1].events[i].id

-----------------------------------------------------------------------------
(* Claims on the result of a run                                           *)

\* C21: a run that completes reports in new_penalties the number of penalty
\* rows it has inserted, which is also the number of its detail lines, and
\* each row it inserted is unpaid, tagged with an event of the run and has
\* the configured flat amount.
C21_NewPenaltiesCountsInsertedRows ==
    [][runs' # runs /\ ~run'[1].failed =>
          LET result == run'[1].result
              new == (DOMAIN penalties') \ (DOMAIN penalties)
          IN /\ run'[1].pc = "done"
             /\ result.new_penalties = Cardinality(new)
             /\ result.new_penalties = Len(result.details)
             /\ \A i \in DOMAIN penalties : penalties'[i] = penalties[i]
             /\ \A i \in new :
                   /\ penalties'[i].paid = FALSE /\ penalties'[i].paid_at = NULL
                   /\ penalties'[i].amount = NO_REPLY_PENALTY
                   /\ \E e \in DOMAIN run'[1].events :
                         /\ penalties'[i].event_id = run'[1].events[e].id
                         /\ penalties'[i].reason
                               = "Spond nicht beantwortet: " \o run'[1].events[e].heading]_vars

\* a run has fined two members for one event, on a ledger that held two
\* penalties before
C21_Witness ==
    /\ Finished(1)
    /\ run[1].result.new_penalties = 2
    /\ Len(run[1].result.details) = 2
    /\ Len(penalties) > 3
    /\ \E x, y \in run[1].issued : x.row # y.row /\ x.row > 2 /\ y.row > 2

-----------------------------------------------------------------------------
(* Claims on the attaching of an external id                               *)

\* two names that differ in letter case at most
SameUpToCase(a, b) == FoldChars(a, 1) = FoldChars(b, 1)

\* this step presents name with the external id sid to get_or_create_player:
\* in a direct call, or in a run for a roster member who has not replied
Presented(name, sid) ==
    \/ ret' # ret /\ ret'[1].name = name /\ ret'[1].spond_id = sid
    \/ /\ runs' # runs
       /\ sid \in DOMAIN run'[1].members
       /\ full_name(run'[1].members[sid]) = name
       /\ \E e \in DOMAIN run'[1].events : <<sid, run'[1].events[e].id>> \in run'[1].handled

\* C22: when a player row without external id has the name that a call of
\* get_or_create_player or a run presents (up to letter case) with an
\* external id no player has yet, the row gets that id, no row is added,
\* a lookup by that id then returns the row's player id, and the penalties
\* the run issues for the member go to that player.
C22_ExternalIdIsAttachedToNameMatch ==
    [][\A name \in UpsertNames \cup {"Max"}, sid \in MemberIds :
          Presented(name, sid) =>
              \A i \in DOMAIN players :
                  /\ players[i].spond_id = NULL
                  /\ SameUpToCase(players[i].name, name)
                  /\ \A k \in DOMAIN players : players[k].spond_id # sid
                  => /\ Len(players') = Len(players)
                     /\ players'[i] = [players[i] EXCEPT !.spond_id = sid]
                     /\ \A other \in UpsertNames :
                           get_or_create_player(players', other, sid).row.id = players[i].id
                     /\ \A x \in run'[1].issued :
                           x.member_id = sid => x.player_id = players[i].id]_vars

-----------------------------------------------------------------------------
(* Claims on paid penalties and later runs                                 *)

\* C24: the probe penalty_exists answers yes for the player and event of
\* every sync-issued penalty, paid or not, and a run adds no penalty for a
\* (player, event) pair that has a paid penalty.
C24_PaidPenaltyIsNotReissued ==
    /\ [](\A j \in DOMAIN penalties :
             penalties[j].event_id # NULL =>
                 penalty_exists(penalties, penalties[j].player_id, penalties[j].event_id))
    /\ [][\A i \in (DOMAIN penalties') \ (DOMAIN penalties) :
             \A j \in DOMAIN penalties :
                 penalties[j].paid => ~SamePair(penalties[j], penalties'[i])]_vars

\* a run over the data of the run before it has met a member whose penalty
\* for the event has been paid in between, and has added nothing
C24_Witness ==
    /\ Finished(1)
    /\ run[1].replay
    /\ run[1].result.new_penalties = 0
    /\ \E h \in run[1].handled, k \in DOMAIN players, j \in DOMAIN penalties :
          /\ players[k].spond_id = h[1]
          /\ penalties[j].player_id = players[k].id
          /\ penalties[j].event_id = h[2]
          /\ penalties[j].paid
    /\ \A j \in DOMAIN penalties : penalties[j].event_id # NULL => penalties[j].paid

-----------------------------------------------------------------------------
(* Two calls of sync_spond as coroutines of one process: a call gives way  *)
(* at its awaits (get_events, get_group, clientsession.close) and nowhere  *)
(* else, and other handlers run while it waits                             *)

\* the call as it would be with an await after every store call
GetGroupAndLoops_yielding(p, ms) ==
    \/ GetGroup(p, ms)
    \/ Member(p)
    \/ Probe(p)
    \/ Insert(p)

\* get_group answers; the call goes on through both loops to the await of
\* clientsession.close
GetGroupAndLoops(p, ms) ==
    /\ run[p].pc = "get_group"
    /\ \E m \in RunLoops([Machine(p) EXCEPT !.r = Fetched(run[p], run[p].events, ms)]) :
          Become(p, m)
    /\ UNCHANGED <<catalog, runs, manuals, arg, ret, bot>>

NextProc ==
    \/ \E p \in Procs :
          \/ StartSync(p)
          \/ \E evs \in EventLists(ConcEvents, MaxSeqEvents) : GetEvents(p, evs)
          \/ \E ms \in ConcRosters : GetGroupAndLoops(p, ms)
          \/ FetchFails(p)
          \/ Close(p)
          \/ Return(p)
    \/ \E u \in Users, n \in ManualNames, r \in ManualReasons, a \in ManualAmounts :
          cmd_strafe_direkt(u, n, r, a)
    \/ \E u \in Users : cmd_bezahlt(u, "ma")

SpecProc == Init /\ [][NextProc]_vars

-----------------------------------------------------------------------------
(* Claims on the calls of one process                                      *)

\* the ledger operations a call has made so far
Work(r) == <<r.handled, r.issued, r.result.players_synced>>

\* C25: a call of sync_spond is found waiting only at get_events, get_group
\* or the closing of the session; all its ledger operations are made in one
\* step, in which no other call and no other handler acts; and two calls under
\* way in one process never both insert a penalty for one (player, event).
C25_LoopsRunWithoutYielding ==
    /\ [](\A p \in Procs : run[p].pc \in {"idle", "get_events", "get_group", "close", "done"})
    /\ [][\A p \in Procs :
             Work(run'[p]) # Work(run[p]) /\ run'[p] # IdleRun =>
                 /\ run[p].pc = "get_group" /\ run'[p].pc = "close"
                 /\ \A q \in Procs \ {p} : run'[q] = run[q]
                 /\ manuals' = manuals
                 /\ Len(penalties') = Len(penalties) + Cardinality(run'[p].issued)]_vars
    /\ [](\A x \in run[1].issued, y \in run[2].issued :
             x.player_id # y.player_id \/ x.event_id # y.event_id)
    /\ [](\A i, j \in DOMAIN penalties :
             i # j /\ penalties[i].event_id # NULL /\ penalties[i].event_id = penalties[j].event_id
                 => penalties[i].player_id # penalties[j].player_id)

\* both calls are waiting for the session to close: both had fetched the same
\* event, the first one fined a member for it, the second one then met that
\* member and fined nobody
C25_Witness ==
    /\ run[1].pc = "close" /\ run[2].pc = "close"
    /\ ~run[1].failed /\ ~run[2].failed
    /\ run[1].issued # {}
    /\ run[2].issued = {}
    /\ \E x \in run[1].issued : <<x.member_id, x.event_id>> \in run[2].handled
    /\ run[2].result.players_synced > 0

-----------------------------------------------------------------------------
(* The assignment dialog (bot.py, /strafe): a ConversationHandler with the *)
(* entry point /strafe, one handler per state and the fallback /cancel.    *)
(* A conversation belongs to one user of the chat; an update is given to   *)
(* the handler of the state the user's conversation is in, and to none if  *)
(* it does not fit that handler.  The euro sign is written "$".            *)

StartsWith(s, prefix) == Len(s) >= Len(prefix) /\ SubSeq(s, 1, Len(prefix)) = prefix

\* str.replace(old, new) for a single character old
RECURSIVE Replace(_, _, _)
Replace(s, old, new) ==
    IF s = "" THEN ""
    ELSE (IF SubSeq(s, 1, 1) = old THEN new ELSE SubSeq(s, 1, 1))
            \o Replace(SubSeq(s, 2, Len(s)), old, new)

\* the positions of a character in a text
Positions(s, c) == {i \in 1..Len(s) : SubSeq(s, i, i) = c}

\* float() on a decimal numeral without sign and exponent and with two
\* decimals at most, white space around it allowed: the amount in cents, or
\* nothing (ValueError)
Float(s) ==
    LET t == strip(s)
        dots == Positions(t, ".")
    IN IF dots = {}
       THEN IF t # "" /\ IsNumber(t) THEN {100 * Number(t)} ELSE {}
       ELSE LET whole == SubSeq(t, 1, Least(dots) - 1)
                frac == SubSeq(t, Least(dots) + 1, Len(t))
            IN IF IsNumber(whole) /\ IsNumber(frac) /\ Len(whole) + Len(frac) > 0 /\ Len(frac) <= 2
               THEN {100 * Number(whole)
                       + (IF Len(frac) = 1 THEN 10 * Number(frac) ELSE Number(frac))}
               ELSE {}

\* float(text.strip().replace(",", ".").replace(euro sign, ""))
ParseAmount(text) == Float(Replace(Replace(strip(text), ",", "."), "$", ""))

\* callback_data of a button: f"sp_{id}", f"cat_{id}" (ids of one digit)
Button(prefix, id) == prefix \o SubSeq(Digits, id + 1, id + 1)

\* the keyboard of cmd_strafe and the keyboard of select_player_callback
PlayerButtons == {Button("sp_", players[i].id) : i \in DOMAIN players} \cup {"sp_cancel"}
CatalogButtons ==
    {Button("cat_", catalog.rows[i].id) : i \in DOMAIN catalog.rows}
        \cup {"cat_custom", "cat_cancel"}

\* cmd_strafe as it would be without the is_admin test
cmd_strafe_open(user) ==
    /\ Quiet
    /\ bot.conv[user].state = END
    /\ bot.dialogs < MaxDialogs
    /\ IF players = <<>>
       THEN UNCHANGED bot
       ELSE bot' = [bot EXCEPT !.conv[user].state = SELECT_PLAYER,
                               !.conv[user].inserted = 0,
                               !.conv[user].last = "/strafe",
                               !.shown = @ \cup PlayerButtons,
                               !.dialogs = @ + 1]
    /\ UNCHANGED <<ledger, run, runs, manuals, arg, ret>>

\* /strafe, the entry point: taken when the user has no conversation under way
cmd_strafe(user) ==
    /\ Quiet
    /\ bot.conv[user].state = END
    /\ bot.dialogs < MaxDialogs
    /\ IF ~is_admin(user) \/ players = <<>>
       THEN UNCHANGED bot
       ELSE bot' = [bot EXCEPT !.conv[user].state = SELECT_PLAYER,
                               !.conv[user].inserted = 0,
                               !.conv[user].last = "/strafe",
                               !.shown = @ \cup PlayerButtons,
                               !.dialogs = @ + 1]
    /\ UNCHANGED <<ledger, run, runs, manuals, arg, ret>>

\* a button with data ^sp_ is pressed by a user whose conversation is in
\* SELECT_PLAYER
select_player_callback(user, data) ==
    /\ Quiet
    /\ bot.conv[user].state = SELECT_PLAYER
    /\ data \in bot.shown
    /\ StartsWith(data, "sp_")
    /\ IF data = "sp_cancel"
       THEN bot' = [bot EXCEPT !.conv[user].state = END, !.conv[user].last = data]
       ELSE bot' = [bot EXCEPT !.conv[user].state = SELECT_REASON,
                               !.conv[user].penalty_player_id = Number(SubSeq(data, 4, Len(data))),
                               !.conv[user].last = data,
                               !.shown = @ \cup CatalogButtons]
    /\ UNCHANGED <<ledger, run, runs, manuals, arg, ret>>

\* a button with data ^cat_ is pressed by a user whose conversation is in
\* SELECT_REASON; the catalog is read at that moment
select_reason_callback(user, data) ==
    /\ Quiet
    /\ bot.conv[user].state = SELECT_REASON
    /\ data \in bot.shown
    /\ StartsWith(data, "cat_")
    /\ IF data = "cat_cancel"
       THEN /\ bot' = [bot EXCEPT !.conv[user].state = END, !.conv[user].last = data]
            /\ UNCHANGED penalties
       ELSE IF data = "cat_custom"
       THEN /\ bot' = [bot EXCEPT !.conv[user].state = CONFIRM_PENALTY, !.conv[user].last = data]
            /\ UNCHANGED penalties
       ELSE LET catalog_id == Number(SubSeq(data, 5, Len(data)))
                found == {i \in DOMAIN catalog.rows : catalog.rows[i].id = catalog_id}
            IN IF found = {}
               THEN /\ bot' = [bot EXCEPT !.conv[user].state = END, !.conv[user].last = data]
                    /\ UNCHANGED penalties
               ELSE LET item == catalog.rows[Least(found)]
                    IN /\ penalties' = add_penalty(penalties, bot.conv[user].penalty_player_id,
                                                   item.name, item.amount, NULL)
                       /\ bot' = [bot EXCEPT !.conv[user].state = END,
                                             !.conv[user].inserted = @ + 1,
                                             !.conv[user].last = data]
    /\ UNCHANGED <<players, catalog, run, runs, manuals, arg, ret>>

\* custom_penalty_input as it would be if it returned CONFIRM_PENALTY after
\* the insert
custom_penalty_input_staying(user, message) ==
    /\ Quiet
    /\ bot.conv[user].state = CONFIRM_PENALTY
    /\ ~StartsWith(message, "/")
    /\ LET text == strip(message)
           bars == Positions(text, "|")
           amount == IF bars = {} THEN {}
                     ELSE ParseAmount(SubSeq(text, Least(bars) + 1, Len(text)))
       IN IF amount = {}
          THEN /\ bot' = [bot EXCEPT !.conv[user].last = message]
               /\ UNCHANGED penalties
          ELSE /\ \E a \in amount :
                     penalties' = add_penalty(penalties, bot.conv[user].penalty_player_id,
                                              strip(SubSeq(text, 1, Least(bars) - 1)), a, NULL)
               /\ bot' = [bot EXCEPT !.conv[user].inserted = @ + 1,
                                     !.conv[user].last = message]
    /\ UNCHANGED <<players, catalog, run, runs, manuals, arg, ret>>

\* a text that is no command is sent by a user whose conversation is in
\* CONFIRM_PENALTY
custom_penalty_input(user, message) ==
    /\ Quiet
    /\ bot.conv[user].state = CONFIRM_PENALTY
    /\ ~StartsWith(message, "/")
    /\ LET text == strip(message)
           bars == Positions(text, "|")
       IN IF bars = {}
          THEN /\ bot' = [bot EXCEPT !.conv[user].last = message]
               /\ UNCHANGED penalties
          ELSE LET reason == strip(SubSeq(text, 1, Least(bars) - 1))
                   amount == ParseAmount(SubSeq(text, Least(bars) + 1, Len(text)))
               IN IF amount = {}
                  THEN /\ bot' = [bot EXCEPT !.conv[user].last = message]
                       /\ UNCHANGED penalties
                  ELSE /\ \E a \in amount :
                             penalties' = add_penalty(penalties,
                                                      bot.conv[user].penalty_player_id,
                                                      reason, a, NULL)
                       /\ bot' = [bot EXCEPT !.conv[user].state = END,
                                             !.conv[user].inserted = @ + 1,
                                             !.conv[user].last = message]
    /\ UNCHANGED <<players, catalog, run, runs, manuals, arg, ret>>

\* /cancel, the fallback, from a user with a conversation under way
cancel(user) ==
    /\ Quiet
    /\ bot.conv[user].state # END
    /\ bot' = [bot EXCEPT !.conv[user].state = END, !.conv[user].last = "/cancel"]
    /\ UNCHANGED <<ledger, run, runs, manuals, arg, ret>>

\* ADMIN_CHAT_IDS is empty, or names user 1
AdminConfigs == {{}, {1}}

InitDialog ==
    /\ players = <<>>
    /\ penalties = <<>>
    /\ catalog = DefaultCatalog
    /\ run = [p \in Procs |-> IdleRun]
    /\ runs = 0
    /\ manuals = 0
    /\ arg = NoInput
    /\ ret = <<>>
    /\ bot \in {[NewBot EXCEPT !.ADMIN_IDS = ids] : ids \in AdminConfigs}

DialogButtons == {"sp_cancel", "sp_1", "cat_cancel", "cat_custom", "cat_2", "cat_7"}
DialogTexts == {"Bier | 1,50 $", "Bier", "Bier | x"}
DialogEvents == {Event("e1", FALSE, TRUE, <<>>)}
DialogRosters == [{"s1"} -> {[firstName |-> "Max", lastName |-> ""]}]

NextDialog ==
    \/ \E u \in Users : cmd_strafe(u)
    \/ \E u \in Users, d \in DialogButtons : select_player_callback(u, d)
    \/ \E u \in Users, d \in DialogButtons : select_reason_callback(u, d)
    \/ \E u \in Users, t \in DialogTexts : custom_penalty_input(u, t)
    \/ \E u \in Users : cancel(u)
    \/ \E u \in Users, n \in ManualNames, a \in ManualAmounts : cmd_strafe_direkt(u, n, "Bier", a)
    \/ /\ catalog.seq = DefaultCatalog.seq
       /\ \E u \in Users, n \in CatalogNames, a \in CatalogAmounts : cmd_katalog_add(u, n, a)
    \/ \E u \in Users : cmd_bezahlt(u, "ma")
    \/ /\ runs = 0
       /\ \E e \in DialogEvents, ms \in DialogRosters : sync_spond(1, <<e>>, ms)

SpecDialog == InitDialog /\ [][NextDialog]_vars

-----------------------------------------------------------------------------
(* Claims on the assignment dialog                                         *)

DialogStates == {END, SELECT_PLAYER, SELECT_REASON, CONFIRM_PENALTY}

\* the moves of a conversation: entry, the two button steps, the text step
DialogMoves ==
    { <<END, SELECT_PLAYER>>, <<SELECT_PLAYER, SELECT_REASON>>, <<SELECT_PLAYER, END>>,
      <<SELECT_REASON, END>>, <<SELECT_REASON, CONFIRM_PENALTY>>,
      <<CONFIRM_PENALTY, CONFIRM_PENALTY>>, <<CONFIRM_PENALTY, END>> }

\* a text of the form reason | amount whose amount can be read
WellFormed(message) ==
    LET text == strip(message)
        bars == Positions(text, "|")
    IN /\ bars # {}
       /\ ParseAmount(SubSeq(text, Least(bars) + 1, Len(text))) # {}

\* the button of a catalog entry that the catalog holds
CatalogChoice(data) ==
    \E i \in DOMAIN catalog.rows : data = Button("cat_", catalog.rows[i].id)

\* C26: a conversation moves from SELECT_PLAYER to SELECT_REASON and from
\* there to END or over CONFIRM_PENALTY to END; it inserts one penalty at
\* most, and only when it ends on the button of a catalog entry that exists
\* or on a text "reason | amount" whose amount can be read; a cancel button
\* ends it with no insert; any other text leaves it in CONFIRM_PENALTY with
\* no insert.
C26_DialogInsertsAtMostOnce ==
    /\ [](\A u \in Users :
             /\ bot.conv[u].state \in DialogStates
             /\ bot.conv[u].inserted <= 1
             /\ bot.conv[u].inserted = 1 => bot.conv[u].state = END)
    /\ [][\A u \in Users :
             LET c == bot.conv[u]
                 d == bot'.conv[u]
             IN d # c =>
                   /\ <<c.state, d.state>> \in DialogMoves
                   /\ d.inserted = (IF c.state = END THEN 0 ELSE c.inserted)
                                      + Len(penalties') - Len(penalties)
                   /\ Len(penalties') > Len(penalties) =>
                         /\ d.state = END
                         /\ \/ c.state = SELECT_REASON /\ CatalogChoice(d.last)
                            \/ c.state = CONFIRM_PENALTY /\ WellFormed(d.last)
                   /\ d.last \in {"sp_cancel", "cat_cancel"} =>
                         d.state = END /\ UNCHANGED ledger
                   /\ c.state = CONFIRM_PENALTY /\ d.last # "/cancel" /\ ~WellFormed(d.last) =>
                         d.state = CONFIRM_PENALTY /\ UNCHANGED ledger]_vars

\* a conversation has ended with the insert of a typed penalty, after
\* another one had ended with the choice of a re-priced catalog entry
C26_Witness ==
    /\ bot.dialogs = 2
    /\ \E u \in Users :
          /\ bot.conv[u].state = END
          /\ bot.conv[u].inserted = 1
          /\ bot.conv[u].last = "Bier | 1,50 $"
    /\ \E i, j \in DOMAIN penalties :
          /\ i < j
          /\ penalties[i].reason = "Gelbe Karte" /\ penalties[i].amount = 700
          /\ penalties[j].reason = "Bier" /\ penalties[j].amount = 150
          /\ penalties[i].player_id = bot.conv[1].penalty_player_id

-----------------------------------------------------------------------------
(* Claims on who may change the ledger                                     *)

\* the step is the handling of an update that user u has sent: a command, a
\* button or a text
UpdateOf(u) ==
    \/ cmd_strafe(u)
    \/ \E d \in DialogButtons : select_player_callback(u, d)
    \/ \E d \in DialogButtons : select_reason_callback(u, d)
    \/ \E t \in DialogTexts : custom_penalty_input(u, t)
    \/ cancel(u)
    \/ \E n \in ManualNames, a \in ManualAmounts : cmd_strafe_direkt(u, n, "Bier", a)
    \/ \E n \in CatalogNames, a \in CatalogAmounts : cmd_katalog_add(u, n, a)
    \/ cmd_bezahlt(u, "ma")

\* C27: with an admin id configured, a user who is not an admin never has a
\* conversation under way, and no update of such a user changes the players,
\* the catalog or the penalties; with no admin id configured every user
\* passes the admin test.
C27_NonAdminsChangeNothing ==
    /\ [](\A u \in Users : bot.conv[u].state # END => is_admin(u))
    /\ [][\A u \in Users : ~is_admin(u) /\ UpdateOf(u) => UNCHANGED ledger]_vars
    /\ [](bot.ADMIN_IDS # {} => \A u \in Users : is_admin(u) <=> u \in bot.ADMIN_IDS)
    /\ [](bot.ADMIN_IDS = {} => \A u \in Users : is_admin(u))

\* user 1 is the admin; a /strafe_direkt has been handled and has added
\* nothing, while the admin's dialog has inserted a penalty for the player
\* that the run created
C27_Witness ==
    /\ bot.ADMIN_IDS = {1}
    /\ manuals = 1
    /\ Len(players) = 1
    /\ players[1].spond_id = "s1"
    /\ Len(penalties) = 2
    /\ bot.conv[1].inserted = 1
    /\ bot.conv[2] = NewConversation

-----------------------------------------------------------------------------
(* Claims on manual penalties                                              *)

\* the step is a manual assignment by user u: /strafe_direkt, the button of
\* a catalog entry that exists, or a text "reason | amount" in the dialog
Assignment(u) ==
    \/ \E n \in ManualNames, a \in ManualAmounts : cmd_strafe_direkt(u, n, "Bier", a)
    \/ \E d \in DialogButtons : CatalogChoice(d) /\ select_reason_callback(u, d)
    \/ \E t \in DialogTexts : WellFormed(t) /\ custom_penalty_input(u, t)

\* the penalties without event id
ManualRows == SelectSeq(penalties, LAMBDA r : r.event_id = NULL)

\* C23: every manual assignment adds exactly one penalty, unpaid and without
\* event id, whatever the table holds; the probe penalty_exists finds nothing
\* among the manual penalties, for any player and event; and a run fines
\* every named member it handles, whatever manual penalties the player has.
C23_ManualPenaltiesAreNotDeduplicated ==
    /\ [][\A u \in Users :
             is_admin(u) /\ Assignment(u) =>
                 /\ Len(penalties') = Len(penalties) + 1
                 /\ \A i \in DOMAIN penalties : penalties'[i] = penalties[i]
                 /\ penalties'[Len(penalties')].paid = FALSE
                 /\ penalties'[Len(penalties')].event_id = NULL]_vars
    /\ [](\A k \in DOMAIN players, e \in EventIds \cup {NULL} :
             ~penalty_exists(ManualRows, players[k].id, e))
    /\ [][runs' # runs =>
             \A h \in run'[1].handled :
                 full_name(run'[1].members[h[1]]) # "" =>
                     \E x \in run'[1].issued, k \in DOMAIN players' :
                         /\ x.member_id = h[1] /\ x.event_id = h[2]
                         /\ players'[k].spond_id = h[1] /\ players'[k].id = x.player_id
                         /\ x.row > Len(penalties)
                         /\ penalties'[x.row].event_id = h[2]
                         /\ penalties'[x.row].player_id = x.player_id]_vars

\* a player has two manual penalties with the same reason and amount, both
\* unpaid, and after them a penalty of the run
C23_Witness ==
    \E i, j, k \in DOMAIN penalties :
        /\ i < j /\ j < k
        /\ penalties[i].player_id = penalties[j].player_id
        /\ penalties[i].reason = penalties[j].reason
        /\ penalties[i].amount = penalties[j].amount
        /\ penalties[i].event_id = NULL /\ penalties[j].event_id = NULL
        /\ ~penalties[i].paid /\ ~penalties[j].paid
        /\ penalties[k].player_id = penalties[i].player_id
        /\ penalties[k].event_id = "e1"

====
